---- MODULE Spec2Model ----
(***************************************************************************)
(* Model of FurRIT/bridge: the change-detection and dissemination engine.  *)
(*                                                                         *)
(*   bridge/cache.py     load_cache, write_cache, load_sort_events,        *)
(*                       update_cache                                      *)
(*   bridge/__init__.py  fetch_events, push_event, fetch_push_events, run  *)
(*   bridge/server.py    _update_clients, post_event_rsvp                  *)
(*   bridge/client.py    push_event_to_clients, _push_event_to_client      *)
(*                                                                         *)
(* The program is a single asyncio event loop: a coroutine runs without    *)
(* interruption from one await to the next.  Every action below is one     *)
(* such stretch or a part of one; splitting a stretch into several actions *)
(* only adds interleavings.                                                *)
(*                                                                         *)
(* The site (browser automation, HTTP GET of one event) and the receivers  *)
(* (HTTP POST) are the environment: what they answer is drawn with \E.     *)
(* Observation is taken by its interface: it yields the event, None, or an *)
(* exception.  In this revision of the sources i_extract_event             *)
(* (site/event.py:114-130) returns None on every path, fetch_events hands  *)
(* try_load_do_auth the browser in the place of the host                   *)
(* (__init__.py:45-51, site/auth.py:36-44), and bridge/types.py declares   *)
(* no play_lock; taken literally no cycle would ever reach the cache.  The *)
(* model lets the observer answer, so that the cache and dissemination     *)
(* logic the cycles run is what is checked.                                *)
(* Sequences are 1-based here, Python's are 0-based: index i of the model  *)
(* is index i-1 of the code.                                               *)
(***************************************************************************)
EXTENDS Integers, Sequences, FiniteSets, TLC

\* ---------------------------------------------------------------- bounds
\* Number of event identifiers the site lists.
NumUids == 2
\* Number of content versions an event can take on the site.
MaxContent == 2
\* Number of configured receivers ([client.*] sections).
NumClients == 2
\* Full-batch cycles run() starts.
MaxPolls == 1
\* RSVP requests the intake handles (one background task each).
MaxRsvps == 2
\* For the functions of bridge/cache.py called on their own: the entries of
\* the cache file, the events of the batch, the highest revision on file.
MaxEntries == 2
MaxBatch == 3
MaxRevId == 1

Uids == 1..NumUids
Contents == 1..MaxContent
Clients == 1..NumClients
TaskIds == 1..MaxRsvps

\* ------------------------------------------------------------ program data
\* Owner of a free asyncio.Lock.
Unlocked == <<"unlocked", 0>>

\* The owner names of the periodic full-batch coroutine and of the task of
\* the t-th RSVP request.
Poller == <<"poller", 0>>
TaskOwner(t) == <<"task", t>>

\* _EXPECTED_PUSH_RESPONSES: the two statuses a receiver answers on success.
ExpectedPushResponses == {200, 201}

\* What one POST to a receiver can end in: aiohttp.ClientConnectionError, the
\* two expected statuses, or any other status (500 stands for all of them).
ConnectionError == [raised |-> TRUE, status |-> 0]
Response(status) == [raised |-> FALSE, status |-> status]
PushOutcomes == {ConnectionError} \cup {Response(s) : s \in {200, 201, 500}}

\* Event: the fields the engine reads are the uid and, as a whole, the content.
Event(u, c) == [uid |-> u, content |-> c]

\* Event.to_dict: the serialisable form of an event.
to_dict(e) == <<"uid", e.uid, "content", e.content>>

\* hash_event / _hash_event: base64(blake2b(json.dumps(to_dict(e)))); a digest
\* is modelled as a value that differs whenever the serialisation differs.
hash_event(e) == <<"blake2b", to_dict(e)>>

\* CacheEntry(uid, hash, rev_id).
CacheEntry(u, h, r) == [uid |-> u, hash |-> h, rev_id |-> r]

\* ------------------------------------------------------------- sequences
Range(s) == {s[i] : i \in DOMAIN s}

RECURSIVE Perms(_)
\* Every order in which the elements of a set can be iterated.
Perms(S) ==
    IF S = {} THEN {<<>>}
    ELSE UNION {{<<x>> \o p : p \in Perms(S \ {x})} : x \in S}

SetMax(S) == CHOOSE x \in S : \A y \in S : y <= x

\* map(f, s) for a sequence.
MapSeq(F(_), s) == [i \in DOMAIN s |-> F(s[i])]

\* The indices 1..Len(s) as a sequence (enumerate).
Indices(s) == [i \in DOMAIN s |-> i]

\* ------------------------------------------------------------ cache file
\* The file at config.cache: absent, or a JSON list of objects.
NoFile == [exists |-> FALSE, raw |-> <<>>]

\* A JSON value as json.load returns it: the Python type it has and its
\* value. A bool keeps, as its value, the integer it equals (True == 1).
JsonStr(v) == [type |-> "str", val |-> v]
JsonInt(v) == [type |-> "int", val |-> v]
JsonBool(v) == [type |-> "bool", val |-> v]

\* isinstance(v, cls) for cls in {str, int}: bool is a subclass of int.
IsInstance(v, cls) ==
    \/ v.type = cls
    \/ cls = "int" /\ v.type = "bool"

\* dataclasses.asdict(entry): the JSON object of one entry. (An entry whose
\* rev_id was loaded from a bool is written back with the integer it equals;
\* json.dump writes true, which loads as the same value.)
asdict(e) ==
    [uid |-> JsonStr(e.uid), hash |-> JsonStr(e.hash), rev_id |-> JsonInt(e.rev_id)]

\* load_cache, lines 44-46: the three assertions an item has to pass.
item_accepted(item) ==
    /\ "uid" \in DOMAIN item /\ IsInstance(item.uid, "str")
    /\ "hash" \in DOMAIN item /\ IsInstance(item.hash, "str")
    /\ "rev_id" \in DOMAIN item /\ IsInstance(item.rev_id, "int")

\* load_cache ends in an AssertionError: the file exists and an item fails
\* an assertion.
load_cache_raises(file) ==
    /\ file.exists
    /\ \E i \in DOMAIN file.raw : ~item_accepted(file.raw[i])

\* load_cache, when it returns: [] when the file does not exist, else one
\* CacheEntry per item.
load_cache(file) ==
    IF ~file.exists THEN <<>>
    ELSE [i \in DOMAIN file.raw |->
             CacheEntry(file.raw[i].uid.val, file.raw[i].hash.val,
                        file.raw[i].rev_id.val)]

\* Mutant of open_w: the file is opened for appending, what it holds stays.
open_a(file) == [exists |-> TRUE, raw |-> file.raw]

\* open(path, "w"): the file is created or truncated.
open_w(file) == [exists |-> TRUE, raw |-> <<>>]

\* json.dump(se, file): the items are written to the open file.
json_dump(file, items) == [file EXCEPT !.raw = @ \o items]

\* write_cache(path, entries): destructively overwrite the file at path with
\* the entries.
write_cache(file, entries) == json_dump(open_w(file), MapSeq(asdict, entries))

\* dict(map(entry -> (uid, ...), entries)): the keys.
DictKeys(entries) == {entries[i].uid : i \in DOMAIN entries}

\* dict(map(entry -> (uid, ...), entries))[u]: a later entry of the same uid
\* overwrites an earlier one.
DictGet(entries, u) ==
    entries[SetMax({i \in DOMAIN entries : entries[i].uid = u})]

\* ------------------------------------------------------- classification
\* EventSort(new, updated, unchanged, hashes, entries).
EventSort(n, u, c, h, e) ==
    [new |-> n, updated |-> u, unchanged |-> c, hashes |-> h, entries |-> e]

\* The value of an EventSort nothing has been sorted into.
EmptySort == EventSort(<<>>, <<>>, <<>>, <<>>, <<>>)

\* Mutant of load_sort_events: the `continue` after updated.append(i) is
\* missing, an updated event is appended to unchanged as well.
load_sort_events_fallthrough(file, events) ==
    LET entries == load_cache(file)
        hashes == MapSeq(hash_event, events)
        known(i) == events[i].uid \in DictKeys(entries)
    IN  EventSort(SelectSeq(Indices(events), LAMBDA i : ~known(i)),
                  SelectSeq(Indices(events), LAMBDA i : known(i) /\
                      DictGet(entries, events[i].uid).hash # hashes[i]),
                  SelectSeq(Indices(events), known),
                  hashes, entries)

\* Mutant of load_sort_events: the comparison of the hashes is inverted.
load_sort_events_inverted(file, events) ==
    LET entries == load_cache(file)
        hashes == MapSeq(hash_event, events)
        known(i) == events[i].uid \in DictKeys(entries)
    IN  EventSort(SelectSeq(Indices(events), LAMBDA i : ~known(i)),
                  SelectSeq(Indices(events), LAMBDA i : known(i) /\
                      DictGet(entries, events[i].uid).hash = hashes[i]),
                  SelectSeq(Indices(events), LAMBDA i : known(i) /\
                      DictGet(entries, events[i].uid).hash # hashes[i]),
                  hashes, entries)

\* load_sort_events: load the entries and classify the events, in input order.
load_sort_events(file, events) ==
    LET entries == load_cache(file)
        hashes == MapSeq(hash_event, events)
        IsNew(i) == events[i].uid \notin DictKeys(entries)
        IsUpdated(i) ==
            /\ events[i].uid \in DictKeys(entries)
            /\ DictGet(entries, events[i].uid).hash # hashes[i]
        IsUnchanged(i) ==
            /\ events[i].uid \in DictKeys(entries)
            /\ DictGet(entries, events[i].uid).hash = hashes[i]
    IN  EventSort(SelectSeq(Indices(events), IsNew),
                  SelectSeq(Indices(events), IsUpdated),
                  SelectSeq(Indices(events), IsUnchanged),
                  hashes, entries)

\* `x in it` for an iterator it over the sequence uids, standing at position
\* p: the position of the first element equal to x at or after p, or 0. The
\* search consumes the iterator up to and including that element; when there
\* is none it consumes it whole.
IterFind(uids, p, x) ==
    LET hits == {j \in DOMAIN uids : j >= p /\ uids[j] = x}
    IN  IF hits = {} THEN 0 ELSE CHOOSE j \in hits : \A k \in hits : j <= k

\* Mutant of carry_over: the filter keeps the entries it should drop.
carry_over_inverted(entries, uids, k, p) ==
    SelectSeq(entries, LAMBDA e : e.uid \in Range(uids))

RECURSIVE carry_over(_, _, _, _)
\* update_cache's carry_over = filter(entry.uid not in new_and_updated_uids,
\* sort.entries) from entry k on, where new_and_updated_uids is a map object
\* (an iterator, standing at position p), not a set: each membership test
\* goes on from where the previous one stopped.
carry_over(entries, uids, k, p) ==
    IF k > Len(entries) THEN <<>>
    ELSE LET j == IterFind(uids, p, entries[k].uid)
         IN  IF j = 0
             THEN <<entries[k]>> \o carry_over(entries, uids, k + 1, Len(uids) + 1)
             ELSE carry_over(entries, uids, k + 1, j + 1)

\* The revision update_cache gives a new entry.
NewRevId == 0

\* Mutant of NextRevId: the revision of the old entry is kept.
NextRevId_keep(old) == old.rev_id

\* The revision update_cache gives an updated entry.
NextRevId(old) == old.rev_id + 1

\* update_cache, lines 137-161: the next generation from a classification.
next_cache(events, sort) ==
    LET new_and_updated_uids ==
            MapSeq(LAMBDA i : events[i].uid, sort.new \o sort.updated)
        fresh == [k \in DOMAIN sort.new |->
                     CacheEntry(events[sort.new[k]].uid,
                                sort.hashes[sort.new[k]], NewRevId)]
        bumped == [k \in DOMAIN sort.updated |->
                     CacheEntry(events[sort.updated[k]].uid,
                                sort.hashes[sort.updated[k]],
                                NextRevId(DictGet(sort.entries,
                                                  events[sort.updated[k]].uid)))]
    IN  carry_over(sort.entries, new_and_updated_uids, 1, 1) \o fresh \o bumped

\* update_cache(path, events) as the server calls it (sort is None): classify
\* against a fresh load, then overwrite the file.
update_cache(file, events) ==
    write_cache(file, next_cache(events, load_sort_events(file, events)))

\* Mutant of to_push_of: every observed event is pushed.
to_push_all(entries, events) == Indices(events)

\* fetch_push_events, lines 182-191: the indices to push, new or changed.
to_push_of(entries, events) ==
    LET Unchanged(i) ==
            /\ events[i].uid \in DictKeys(entries)
            /\ DictGet(entries, events[i].uid).hash = hash_event(events[i])
    IN  SelectSeq(Indices(events), LAMBDA i : ~Unchanged(i))

\* fetch_push_events, lines 198-201: the revision sent with a pushed event.
push_rev_id(entries, event) ==
    IF event.uid \in DictKeys(entries)
    THEN DictGet(entries, event.uid).rev_id + 1
    ELSE 0

\* Mutant of derive_entry: the first revision of a uid is 1.
derive_entry_from_one(entries, event) ==
    CacheEntry(event.uid, hash_event(event),
               IF event.uid \notin DictKeys(entries) THEN 1
               ELSE DictGet(entries, event.uid).rev_id + 1)

\* fetch_push_events._derive_entry: the entry written for a pushed event.
derive_entry(entries, event) ==
    IF event.uid \notin DictKeys(entries)
    THEN CacheEntry(event.uid, hash_event(event), 0)
    ELSE CacheEntry(event.uid, hash_event(event),
                    DictGet(entries, event.uid).rev_id + 1)

\* Mutant of n_entries_of: the generation is rebuilt from the batch alone,
\* entries of uids that were not observed are not carried over.
n_entries_batch_only(entries, events, to_push) ==
    LET batch_uids == {events[i].uid : i \in DOMAIN events}
    IN  SelectSeq(entries, LAMBDA e : e.uid \in batch_uids
                      /\ e.uid \notin {events[to_push[k]].uid : k \in DOMAIN to_push})
        \o [k \in DOMAIN to_push |-> derive_entry(entries, events[to_push[k]])]

\* fetch_push_events, lines 206-228: the generation the full cycle writes.
n_entries_of(entries, events, to_push) ==
    LET updated_event_uids == {events[to_push[k]].uid : k \in DOMAIN to_push}
    IN  SelectSeq(entries, LAMBDA e : e.uid \notin updated_event_uids)
        \o [k \in DOMAIN to_push |-> derive_entry(entries, events[to_push[k]])]

\* ------------------------------------------------------------- receivers
\* The JSON body push_event posts: the event's dict plus "rev_id".
body_with_rev(event, rev_id) ==
    [uid |-> event.uid, hash |-> hash_event(event),
     has_rev_id |-> TRUE, rev_id |-> rev_id]

\* The JSON body push_event_to_clients posts: event.to_dict() as it is.
body_of(event) ==
    [uid |-> event.uid, hash |-> hash_event(event),
     has_rev_id |-> FALSE, rev_id |-> 0]

\* Whether an outcome is a failed delivery (logging.error).
IsFailure(outcome) ==
    outcome.raised \/ outcome.status \notin ExpectedPushResponses

\* Mutant of push_propagates: the connection error is not caught.
push_propagates_uncaught(outcome) == outcome.raised

\* Whether the outcome of one POST leaves the loop over config.clients as an
\* exception: ClientConnectionError is caught, a status is no exception.
push_propagates(outcome) == FALSE

\* Mutant of next_client: a failed delivery ends the loop over the clients.
next_client_abort(ci, outcome) ==
    IF IsFailure(outcome) THEN NumClients + 1 ELSE ci + 1

\* `continue` / return of _push_event_to_client: the client attempted after
\* client ci, whatever the outcome.
next_client(ci, outcome) == ci + 1

\* ----------------------------------------------------------------- state
VARIABLES
    site,        \* site[u]: the content the site now serves for event u
    cacheFile,   \* the file at config.cache
    cache_lock,  \* ctx.cache_lock: its owner, or Unlocked
    play_lock,   \* ctx.play_lock: its owner, or Unlocked
    poll,        \* run()'s fetch_push_events coroutine: its position and locals
    nPolls,      \* full-batch cycles started so far
    task,        \* task[t]: the _update_clients task of the t-th RSVP request
    nRsvps,      \* RSVP requests handled so far
    lastDissem,  \* lastDissem[u]: fingerprint of the event a cycle last chose to
                 \* disseminate for u, in cache-lock order (history)
    rsvp,        \* rsvp[t]: the post_event_rsvp handler of the t-th RSVP request
    call,        \* a call of a function of bridge/cache.py on its own: the
                 \* arguments and what it returned (NoCall while the program runs)
    history      \* what the state does not keep: the order of observations
                 \* and what each receiver got (history; kept only in the
                 \* specifications that ask about it)

vars == <<site, cacheFile, cache_lock, play_lock, poll, nPolls, task, nRsvps,
          lastDissem, rsvp, call, history>>

\* No event: i_extract_event returned None, or nothing was fetched yet.
NoEvent == Event(0, 0)

\* No fingerprint disseminated yet.
NoHash == <<"none">>

\* No delivery attempted yet in this cycle.
NoAttempts == [u \in Uids |-> [c \in Clients |-> 0]]

\* The locals of fetch_push_events before a cycle starts.
PollIdle ==
    [pc |-> "idle", todo |-> <<>>, events |-> <<>>, entries |-> <<>>,
     to_push |-> <<>>, pi |-> 1, ci |-> 1,
     skipped |-> {}, notified |-> {}, attempts |-> NoAttempts,
     failed |-> FALSE, raised |-> FALSE]

\* The locals of an _update_clients task that was not created yet.
TaskUnborn ==
    [pc |-> "unborn", eid |-> 0, event |-> NoEvent, sort |-> EmptySort,
     duplicate |-> FALSE, ci |-> 1,
     notified |-> {}, attempts |-> NoAttempts]

\* A task that returned, and one that an exception ended.
TaskDone == [TaskUnborn EXCEPT !.pc = "done"]
TaskFailed == [TaskUnborn EXCEPT !.pc = "failed"]

\* The locals of a post_event_rsvp handler no request has started: ok is
\* response.ok of the forwarded write, status the status of the Response the
\* handler returned (0: none).
RsvpUnborn == [pc |-> "unborn", ok |-> FALSE, status |-> 0]

\* Nothing of bridge/cache.py is being called on its own.
NoCall ==
    [fn |-> "none", file |-> NoFile, events |-> <<>>, entries |-> <<>>,
     sort |-> EmptySort, to_push |-> <<>>, out |-> NoFile]

\* A receiver missed a notification of the uid: a delivery to it failed.
Missed == <<"missed">>

\* The history before anything ran. mode says what is kept: "off" nothing,
\* "order" the order of observations, "delivery" what the receivers got.
\* mark[t] is "older" when the full-batch cycle observed the uid of task t
\* after task t did and before task t wrote, "stale" once the full-batch
\* cycle also wrote, and the file has the fingerprint it observed.
\* got[c][u] is the fingerprint of the last notification of u that was
\* delivered to receiver c.
NoHistory ==
    [mode |-> "off",
     mark |-> [t \in TaskIds |-> "none"],
     got |-> [c \in Clients |-> [u \in Uids |-> NoHash]]]

\* The application context: one cache lock and one play lock for the whole
\* process, shared by run()'s cycle and by every background task.
AppContext == [cache_lock |-> Unlocked, play_lock |-> Unlocked]

\* A cache file that something other than write_cache left at config.cache
\* before the program starts: one item for uid 1, without its rev_id, with a
\* string or with a JSON boolean as its rev_id.
ForeignFiles ==
    LET h == JsonStr(hash_event(Event(1, 1)))
    IN  {[exists |-> TRUE, raw |-> <<item>>] :
            item \in {[uid |-> JsonStr(1), hash |-> h],
                      [uid |-> JsonStr(1), hash |-> h, rev_id |-> JsonStr(0)],
                      [uid |-> JsonStr(1), hash |-> h, rev_id |-> JsonBool(1)]}}

Started ==
    /\ site \in [Uids -> {1}]
    /\ cacheFile \in {NoFile} \cup ForeignFiles
    /\ cache_lock = AppContext.cache_lock
    /\ play_lock = AppContext.play_lock
    /\ poll = PollIdle
    /\ nPolls = 0
    /\ task = [t \in TaskIds |-> TaskUnborn]
    /\ nRsvps = 0
    /\ lastDissem = [u \in Uids |-> NoHash]
    /\ rsvp = [t \in TaskIds |-> RsvpUnborn]
    /\ call = NoCall

\* The program before run() and the server start.
Init == Started /\ history = NoHistory

\* Mutant of CanAcquire: the lock is entered whoever holds it.
CanAcquire_always(lock) == TRUE

\* asyncio.Lock: acquire succeeds only when nobody holds the lock.
CanAcquire(lock) == lock = Unlocked

\* asyncio.Lock wakes its waiters in the order they came, and a newcomer
\* queues behind them. The tasks start in the order they were created, so
\* they reach each lock in that order: task t is the first waiter of a lock
\* when no task created before it waits at the same place (pc), and the
\* full-batch cycle is when no task waits for the cache lock.
FirstWaiter(t, pc) == \A s \in TaskIds : s < t => task[s].pc # pc
NoWaiter(pc) == \A s \in TaskIds : task[s].pc # pc

\* ---------------------------------------------------------------- history
\* The full-batch cycle observed u: every task that observed u and has not
\* written yet observed it earlier.
observed_by_poll(h, u) ==
    IF h.mode # "order" THEN h
    ELSE [h EXCEPT !.mark = [t \in TaskIds |->
             IF task[t].pc = "cache_wait" /\ task[t].event.uid = u
             THEN "older" ELSE h.mark[t]]]

\* The full-batch cycle wrote file from its batch events: a task marked older
\* is stale when the file now has the fingerprint the cycle observed for the
\* task's uid.
written_by_poll(h, file, events) ==
    IF h.mode # "order" THEN h
    ELSE [h EXCEPT !.mark = [t \in TaskIds |->
             IF /\ h.mark[t] = "older"
                /\ \E k \in DOMAIN events :
                       /\ events[k].uid = task[t].event.uid
                       /\ ~load_cache_raises(file)
                       /\ events[k].uid \in DictKeys(load_cache(file))
                       /\ DictGet(load_cache(file), events[k].uid).hash =
                              hash_event(events[k])
             THEN "stale" ELSE "none"]]

\* Task t left its cache_lock block.
left_by_task(h, t) ==
    IF h.mode # "order" THEN h
    ELSE [h EXCEPT !.mark[t] = "none"]

\* One POST of event to receiver c ended in outcome.
delivered(h, c, event, outcome) ==
    IF h.mode # "delivery" THEN h
    ELSE [h EXCEPT !.got[c][event.uid] =
             IF IsFailure(outcome) \/ @ = Missed THEN Missed
             ELSE hash_event(event)]

\* ------------------------------------------------------------ environment
\* The site's content of event u changes (an organiser edits it, an RSVP
\* reaches it); every GET of the event made later returns the new content.
SiteEdit(u) ==
    /\ \E c \in Contents \ {site[u]} : site' = [site EXCEPT ![u] = c]
    /\ UNCHANGED <<cacheFile, cache_lock, play_lock, poll, nPolls, task,
                   nRsvps, lastDissem, rsvp, call,
                   history>>

\* ------------------------------------------- full-batch cycle (__init__.py)
\* One step of the site observer ends in one of three ways: the data, a
\* response that is not ok (i_extract_event returns None), or an exception.
\* Each action below has one disjunct per way.

\* fetch_push_events, line 161: await ctx.cache_lock.acquire(). run() enters
\* it at start and after each asyncio.sleep(config.frequency).
fetch_push_events_acquire ==
    /\ poll.pc \in {"idle", "sleep"}
    /\ nPolls < MaxPolls
    /\ CanAcquire(cache_lock)
    /\ NoWaiter("cache_wait")
    /\ cache_lock' = Poller
    /\ poll' = [PollIdle EXCEPT !.pc = "fetch_ids"]
    /\ nPolls' = nPolls + 1
    /\ UNCHANGED <<site, cacheFile, play_lock, task, nRsvps, lastDissem,
                   rsvp, call,
                   history>>

\* fetch_events, lines 42-57: start the browser, authenticate, read the event
\* ids from the page; uids = frozenset(raw_uids) is iterated in some order.
\* An exception of any of these awaits leaves fetch_push_events, which has
\* no handler: the coroutine ends with the cache lock still held.
fetch_events_ids ==
    /\ poll.pc = "fetch_ids"
    /\ \/ \E order \in Perms(Uids) :
              poll' = [poll EXCEPT !.pc = "fetch_event", !.todo = order]
       \/ poll' = [poll EXCEPT !.pc = "crashed", !.raised = TRUE]
    /\ UNCHANGED <<site, cacheFile, cache_lock, play_lock, nPolls, task,
                   nRsvps, lastDissem, rsvp, call,
                   history>>

\* Where fetch_events goes after the uid at the head of todo.
AfterFetch(p) ==
    [p EXCEPT !.todo = Tail(@),
              !.pc = IF Len(p.todo) = 1 THEN "classify" ELSE "fetch_event"]

\* fetch_events, lines 60-69: one iteration of `for uid in uids`. A None
\* response is logged and the uid skipped (continue); the loop goes on.
fetch_events_event ==
    /\ poll.pc = "fetch_event"
    /\ poll.todo # <<>>
    /\ LET u == Head(poll.todo) IN
       \/ /\ poll' = AfterFetch([poll EXCEPT
                        !.events = Append(@, Event(u, site[u]))])
          /\ history' = observed_by_poll(history, u)
       \/ /\ poll' = AfterFetch([poll EXCEPT !.skipped = @ \cup {u}])
          /\ history' = history
       \/ /\ poll' = [poll EXCEPT !.pc = "crashed", !.raised = TRUE]
          /\ history' = history
    /\ UNCHANGED <<site, cacheFile, cache_lock, play_lock, nPolls, task,
                   nRsvps, lastDissem, rsvp, call>>

\* The fingerprints chosen for dissemination, after a cycle chose the events
\* chosen (a sequence of events).
Disseminated(last, chosen) ==
    [u \in Uids |->
        IF \E k \in DOMAIN chosen : chosen[k].uid = u
        THEN hash_event(chosen[SetMax({k \in DOMAIN chosen : chosen[k].uid = u})])
        ELSE last[u]]

\* fetch_push_events, lines 171-191: load the cache and pick the events to
\* push. An AssertionError of load_cache leaves fetch_push_events like any
\* other exception, the cache lock held.
fetch_push_events_classify ==
    /\ poll.pc = "classify"
    /\ IF load_cache_raises(cacheFile)
       THEN /\ poll' = [poll EXCEPT !.pc = "crashed"]
            /\ lastDissem' = lastDissem
       ELSE LET entries == load_cache(cacheFile)
                to_push == to_push_of(entries, poll.events)
            IN  /\ poll' = [poll EXCEPT
                       !.entries = entries, !.to_push = to_push,
                       !.pi = 1, !.ci = 1,
                       !.pc = IF to_push = <<>> THEN "write" ELSE "push"]
                /\ lastDissem' = Disseminated(lastDissem,
                       [k \in DOMAIN to_push |-> poll.events[to_push[k]]])
    /\ UNCHANGED <<site, cacheFile, cache_lock, play_lock, nPolls, task,
                   nRsvps, rsvp, call,
                   history>>

\* One delivery attempt recorded in a cycle's history of attempts.
Attempted(attempts, u, c) ==
    [attempts EXCEPT ![u][c] = @ + 1]

\* fetch_push_events, lines 193-204, and push_event, lines 116-140: one POST
\* of the event at to_push[pi] to the client at position ci.
fetch_push_events_push ==
    /\ poll.pc = "push"
    /\ \E outcome \in PushOutcomes :
        LET event == poll.events[poll.to_push[poll.pi]]
            rev_id == push_rev_id(poll.entries, event)
            nc == next_client(poll.ci, outcome)
            sent == [poll EXCEPT
                !.notified = @ \cup {body_with_rev(event, rev_id)},
                !.attempts = Attempted(@, event.uid, poll.ci),
                !.failed = @ \/ IsFailure(outcome)]
        IN  /\ poll' =
              IF push_propagates(outcome)
              THEN [sent EXCEPT !.pc = "crashed"]
              ELSE IF nc <= NumClients
              THEN [sent EXCEPT !.ci = nc]
              ELSE IF poll.pi < Len(poll.to_push)
              THEN [sent EXCEPT !.pi = @ + 1, !.ci = 1]
              ELSE [sent EXCEPT !.pc = "write"]
            /\ history' = delivered(history, poll.ci, event, outcome)
    /\ UNCHANGED <<site, cacheFile, cache_lock, play_lock, nPolls, task,
                   nRsvps, lastDissem, rsvp, call>>

\* fetch_push_events, lines 206-231: write the next generation, release the
\* cache lock; run() then sleeps.
fetch_push_events_write ==
    /\ poll.pc = "write"
    /\ cacheFile' = write_cache(cacheFile,
           n_entries_of(poll.entries, poll.events, poll.to_push))
    /\ cache_lock' = Unlocked
    /\ poll' = [PollIdle EXCEPT !.pc = "sleep", !.failed = poll.failed]
    /\ history' = written_by_poll(history, cacheFile', poll.events)
    /\ UNCHANGED <<site, play_lock, nPolls, task, nRsvps, lastDissem, rsvp,
                   call>>

\* -------------------------------------- single-event cycle (server.py)
\* post_event_rsvp: forward the RSVP to the site, then create the background
\* task for the event (asyncio.create_task), then answer. The forwarded write
\* ends in response.ok, in a response that is not ok, or in an exception of
\* session.post, which leaves the handler before create_task (the three
\* disjuncts, in this order). A write the site accepts may change what the
\* site serves for the event. The handler is taken as one step here and its
\* Response left out: closing the session and answering touch nothing a
\* cycle reads. IntakeSpec below has the handler in its two steps.
post_event_rsvp(eid) ==
    /\ nRsvps < MaxRsvps
    /\ nRsvps' = nRsvps + 1
    /\ \/ /\ \E c \in Contents : site' = [site EXCEPT ![eid] = c]
          /\ task' = [task EXCEPT ![nRsvps + 1] =
                         [TaskUnborn EXCEPT !.pc = "play_wait", !.eid = eid]]
       \/ /\ site' = site
          /\ task' = [task EXCEPT ![nRsvps + 1] =
                         [TaskUnborn EXCEPT !.pc = "play_wait", !.eid = eid]]
       \/ /\ site' = site
          /\ task' = task
    /\ UNCHANGED <<cacheFile, cache_lock, play_lock, poll, nPolls, lastDissem,
                   rsvp, call,
                   history>>

\* _update_clients, line 65: async with ctx.play_lock.
update_clients_acquire_play(t) ==
    /\ task[t].pc = "play_wait"
    /\ CanAcquire(play_lock)
    /\ FirstWaiter(t, "play_wait")
    /\ play_lock' = TaskOwner(t)
    /\ task' = [task EXCEPT ![t].pc = "observing"]
    /\ UNCHANGED <<site, cacheFile, cache_lock, poll, nPolls, nRsvps,
                   lastDissem, rsvp, call,
                   history>>

\* _update_clients, lines 66-85: authenticate and extract the event, leave
\* the play_lock block. None ends the task (extraction failed); an exception
\* ends it too, the lock released by the with block.
update_clients_observe(t) ==
    /\ task[t].pc = "observing"
    /\ play_lock' = Unlocked
    /\ \/ task' = [task EXCEPT ![t].pc = "cache_wait",
                       ![t].event = Event(task[t].eid, site[task[t].eid])]
       \/ task' = [task EXCEPT ![t] = TaskDone]
       \/ task' = [task EXCEPT ![t] = TaskFailed]
    /\ UNCHANGED <<site, cacheFile, cache_lock, poll, nPolls, nRsvps,
                   lastDissem, rsvp, call,
                   history>>

\* _update_clients, line 89: duplicate = len(sort.updated) == 0.
duplicate_of(sort) == Len(sort.updated) = 0

\* _update_clients, lines 87-89: enter the cache_lock block and classify the
\* batch of one. An AssertionError of load_cache leaves the block, which
\* releases the lock, and ends the task.
update_clients_classify(t) ==
    /\ task[t].pc = "cache_wait"
    /\ CanAcquire(cache_lock)
    /\ FirstWaiter(t, "cache_wait")
    /\ IF load_cache_raises(cacheFile)
       THEN /\ cache_lock' = cache_lock
            /\ task' = [task EXCEPT ![t] = TaskFailed]
            /\ lastDissem' = lastDissem
            /\ history' = left_by_task(history, t)
       ELSE LET sort == load_sort_events(cacheFile, <<task[t].event>>)
                duplicate == duplicate_of(sort)
            IN  /\ cache_lock' = TaskOwner(t)
                /\ task' = [task EXCEPT ![t].pc = "update", ![t].sort = sort,
                                ![t].duplicate = duplicate]
                /\ lastDissem' = IF duplicate THEN lastDissem
                                 ELSE Disseminated(lastDissem, <<task[t].event>>)
                /\ history' = history
    /\ UNCHANGED <<site, cacheFile, play_lock, poll, nPolls, nRsvps, rsvp,
                   call>>

\* _update_clients, lines 91-93: update_cache(path, [event]), leave the
\* cache_lock block, and go on to push unless the event is a duplicate.
update_clients_update(t) ==
    /\ task[t].pc = "update"
    /\ cacheFile' = update_cache(cacheFile, <<task[t].event>>)
    /\ cache_lock' = Unlocked
    /\ task' = [task EXCEPT ![t] =
           IF task[t].duplicate THEN TaskDone
           ELSE [task[t] EXCEPT !.pc = "push", !.ci = 1]]
    /\ history' = left_by_task(history, t)
    /\ UNCHANGED <<site, play_lock, poll, nPolls, nRsvps, lastDissem, rsvp,
                   call>>

\* _update_clients, line 95, and push_event_to_clients: one POST of the event
\* to the client at position ci.
update_clients_push(t) ==
    /\ task[t].pc = "push"
    /\ \E outcome \in PushOutcomes :
        LET event == task[t].event
            nc == next_client(task[t].ci, outcome)
            sent == [task[t] EXCEPT
                !.notified = @ \cup {body_of(event)},
                !.attempts = Attempted(@, event.uid, task[t].ci)]
        IN  /\ task' = [task EXCEPT ![t] =
              IF push_propagates(outcome)
              THEN TaskFailed
              ELSE IF nc <= NumClients
              THEN [sent EXCEPT !.ci = nc]
              ELSE [sent EXCEPT !.pc = "close"]]
            /\ history' = delivered(history, task[t].ci, event, outcome)
    /\ UNCHANGED <<site, cacheFile, cache_lock, play_lock, poll, nPolls,
                   nRsvps, lastDissem, rsvp, call>>

\* push_event_to_clients, line 69: await session.close(); the task ends.
update_clients_close(t) ==
    /\ task[t].pc = "close"
    /\ task' = [task EXCEPT ![t] = TaskDone]
    /\ UNCHANGED <<site, cacheFile, cache_lock, play_lock, poll, nPolls,
                   nRsvps, lastDissem, rsvp, call,
                   history>>

\* ------------------------------------------------------- specification
Next ==
    \/ \E u \in Uids : SiteEdit(u)
    \/ fetch_push_events_acquire
    \/ fetch_events_ids
    \/ fetch_events_event
    \/ fetch_push_events_classify
    \/ fetch_push_events_push
    \/ fetch_push_events_write
    \/ \E eid \in Uids : post_event_rsvp(eid)
    \/ \E t \in TaskIds : update_clients_acquire_play(t)
    \/ \E t \in TaskIds : update_clients_observe(t)
    \/ \E t \in TaskIds : update_clients_classify(t)
    \/ \E t \in TaskIds : update_clients_update(t)
    \/ \E t \in TaskIds : update_clients_push(t)
    \/ \E t \in TaskIds : update_clients_close(t)

Spec == Init /\ [][Next]_vars

\* ------------------------------------------------------------- scheduling
\* The steps of run()'s coroutine and of task t. A coroutine is at one place
\* at a time: at most one disjunct is enabled.
PollStep ==
    \/ fetch_push_events_acquire
    \/ fetch_events_ids
    \/ fetch_events_event
    \/ fetch_push_events_classify
    \/ fetch_push_events_push
    \/ fetch_push_events_write

TaskStep(t) ==
    \/ update_clients_acquire_play(t)
    \/ update_clients_observe(t)
    \/ update_clients_classify(t)
    \/ update_clients_update(t)
    \/ update_clients_push(t)
    \/ update_clients_close(t)

\* The event loop runs every coroutine that can go on, and every external
\* call comes back (with a result or an exception): a coroutine whose next
\* step stays possible takes it. An asyncio.Lock wakes its waiters in order,
\* which is more than is asked for here.
LiveSpec ==
    /\ Init /\ [][Next]_vars
    /\ WF_vars(PollStep)
    /\ \A t \in TaskIds : WF_vars(TaskStep(t))

\* The program on its first start (no cache file yet), with the order of
\* observations kept.
OrderInit ==
    /\ Started
    /\ cacheFile = NoFile
    /\ history = [NoHistory EXCEPT !.mode = "order"]

OrderSpec == OrderInit /\ [][Next]_vars

\* The program on its first start, with what the receivers got kept.
DeliveryInit ==
    /\ Started
    /\ cacheFile = NoFile
    /\ history = [NoHistory EXCEPT !.mode = "delivery"]

DeliverySpec == DeliveryInit /\ [][Next]_vars

\* ------------------------------------------------- the RSVP intake in detail
\* post_event_rsvp, lines 99-126: the handler up to and including
\* asyncio.create_task; ok is response.ok of the forwarded write. The three
\* disjuncts are those of post_event_rsvp above.
post_event_rsvp_forward(eid) ==
    /\ nRsvps < MaxRsvps
    /\ nRsvps' = nRsvps + 1
    /\ \/ /\ \E c \in Contents : site' = [site EXCEPT ![eid] = c]
          /\ task' = [task EXCEPT ![nRsvps + 1] =
                         [TaskUnborn EXCEPT !.pc = "play_wait", !.eid = eid]]
          /\ rsvp' = [rsvp EXCEPT ![nRsvps + 1] =
                         [RsvpUnborn EXCEPT !.pc = "closing", !.ok = TRUE]]
       \/ /\ site' = site
          /\ task' = [task EXCEPT ![nRsvps + 1] =
                         [TaskUnborn EXCEPT !.pc = "play_wait", !.eid = eid]]
          /\ rsvp' = [rsvp EXCEPT ![nRsvps + 1] =
                         [RsvpUnborn EXCEPT !.pc = "closing", !.ok = FALSE]]
       \/ /\ site' = site
          /\ task' = task
          /\ rsvp' = [rsvp EXCEPT ![nRsvps + 1] =
                         [RsvpUnborn EXCEPT !.pc = "raised"]]
    /\ UNCHANGED <<cacheFile, cache_lock, play_lock, poll, nPolls, lastDissem,
                   call,
                   history>>

\* Mutant of rsvp_status: the handler answers 200 whatever the write did.
rsvp_status_ok(ok) == 200

\* post_event_rsvp, lines 129-131: the status of the Response returned.
rsvp_status(ok) == IF ok THEN 200 ELSE 500

\* post_event_rsvp, lines 127-131: after await session.close(), return the
\* Response. The handler holds no reference to the task it created.
post_event_rsvp_respond(t) ==
    /\ rsvp[t].pc = "closing"
    /\ rsvp' = [rsvp EXCEPT ![t].pc = "answered",
                            ![t].status = rsvp_status(rsvp[t].ok)]
    /\ UNCHANGED <<site, cacheFile, cache_lock, play_lock, poll, nPolls, task,
                   nRsvps, lastDissem, call,
                   history>>

\* The intake with the cycles it runs beside; the site changes through the
\* RSVPs it is sent.
IntakeNext ==
    \/ \E eid \in Uids : post_event_rsvp_forward(eid)
    \/ \E t \in TaskIds : post_event_rsvp_respond(t)
    \/ fetch_push_events_acquire
    \/ fetch_events_ids
    \/ fetch_events_event
    \/ fetch_push_events_classify
    \/ fetch_push_events_push
    \/ fetch_push_events_write
    \/ \E t \in TaskIds : update_clients_acquire_play(t)
    \/ \E t \in TaskIds : update_clients_observe(t)
    \/ \E t \in TaskIds : update_clients_classify(t)
    \/ \E t \in TaskIds : update_clients_update(t)
    \/ \E t \in TaskIds : update_clients_push(t)
    \/ \E t \in TaskIds : update_clients_close(t)

IntakeSpec == Init /\ [][IntakeNext]_vars

\* ------------------------------------------- bridge/cache.py on its own
\* The sequences over a set S of length at most n.
SeqsUpTo(S, n) == UNION {[1..k -> S] : k \in 0..n}

\* The sequences of up to MaxEntries entries, each with the fingerprint of
\* some content of its uid. A uid may have more than one entry (update_cache
\* can leave the old one beside the new).
ArgEntries ==
    SeqsUpTo({CacheEntry(u, hash_event(Event(u, c)), r) :
                 u \in Uids, c \in Contents, r \in 0..MaxRevId},
             MaxEntries)

\* The cache files at the path: none, or one write_cache has written.
ArgFiles == {NoFile} \cup {write_cache(NoFile, es) : es \in ArgEntries}

\* The batches of observed events, up to MaxBatch events.
ArgBatches == SeqsUpTo({Event(u, c) : u \in Uids, c \in Contents}, MaxBatch)

\* A call is about to be made with some cache file and some batch; the
\* program itself is not running.
CacheInit ==
    /\ site \in [Uids -> {1}]
    /\ cacheFile = NoFile
    /\ cache_lock = AppContext.cache_lock
    /\ play_lock = AppContext.play_lock
    /\ poll = PollIdle
    /\ nPolls = 0
    /\ task = [t \in TaskIds |-> TaskUnborn]
    /\ nRsvps = 0
    /\ lastDissem = [u \in Uids |-> NoHash]
    /\ rsvp = [t \in TaskIds |-> RsvpUnborn]
    /\ call \in {[NoCall EXCEPT !.fn = "args", !.file = f, !.events = b] :
                    f \in ArgFiles, b \in ArgBatches}
    /\ history = NoHistory

\* sort = load_sort_events(path, events).
call_load_sort_events ==
    /\ call.fn = "args"
    /\ call' = [call EXCEPT
           !.fn = "load_sort_events",
           !.sort = load_sort_events(call.file, call.events)]
    /\ UNCHANGED <<site, cacheFile, cache_lock, play_lock, poll, nPolls, task,
                   nRsvps, lastDissem, rsvp,
                   history>>

\* update_cache(path, events): sort is the classification it computes, out
\* the file it writes.
call_update_cache ==
    /\ call.fn = "args"
    /\ call' = [call EXCEPT
           !.fn = "update_cache",
           !.sort = load_sort_events(call.file, call.events),
           !.out = update_cache(call.file, call.events)]
    /\ UNCHANGED <<site, cacheFile, cache_lock, play_lock, poll, nPolls, task,
                   nRsvps, lastDissem, rsvp,
                   history>>

\* fetch_push_events, lines 171-230, without the pushes: to_push and the
\* file written. Its batch comes from a frozenset of uids, one event a uid.
call_fetch_push_events ==
    /\ call.fn = "args"
    /\ \A i, j \in DOMAIN call.events :
           call.events[i].uid = call.events[j].uid => i = j
    /\ LET entries == load_cache(call.file)
           to_push == to_push_of(entries, call.events)
       IN  call' = [call EXCEPT
               !.fn = "fetch_push_events",
               !.to_push = to_push,
               !.out = write_cache(call.file,
                          n_entries_of(entries, call.events, to_push))]
    /\ UNCHANGED <<site, cacheFile, cache_lock, play_lock, poll, nPolls, task,
                   nRsvps, lastDissem, rsvp,
                   history>>

\* The cycle that comes next, over the same batch: update_cache(path, events)
\* on the file the first call has written.
call_update_cache_again ==
    /\ call.fn = "update_cache"
    /\ call' = [call EXCEPT
           !.fn = "update_cache_again",
           !.file = call.out,
           !.sort = load_sort_events(call.out, call.events),
           !.out = update_cache(call.out, call.events)]
    /\ UNCHANGED <<site, cacheFile, cache_lock, play_lock, poll, nPolls, task,
                   nRsvps, lastDissem, rsvp,
                   history>>

\* The full-batch cycle that comes next, over the same batch.
call_fetch_push_events_again ==
    /\ call.fn = "fetch_push_events"
    /\ LET entries == load_cache(call.out)
           to_push == to_push_of(entries, call.events)
       IN  call' = [call EXCEPT
               !.fn = "fetch_push_events_again",
               !.file = call.out,
               !.to_push = to_push,
               !.out = write_cache(call.out,
                          n_entries_of(entries, call.events, to_push))]
    /\ UNCHANGED <<site, cacheFile, cache_lock, play_lock, poll, nPolls, task,
                   nRsvps, lastDissem, rsvp,
                   history>>

\* write_cache(path, entries) on the file at path (no batch is involved).
call_write_cache ==
    /\ call.fn = "args"
    /\ call.events = <<>>
    /\ \E es \in ArgEntries :
           call' = [call EXCEPT
               !.fn = "write_cache",
               !.entries = es,
               !.out = write_cache(call.file, es)]
    /\ UNCHANGED <<site, cacheFile, cache_lock, play_lock, poll, nPolls, task,
                   nRsvps, lastDissem, rsvp,
                   history>>

CacheNext ==
    \/ call_load_sort_events
    \/ call_update_cache
    \/ call_fetch_push_events
    \/ call_update_cache_again
    \/ call_fetch_push_events_again
    \/ call_write_cache

CacheSpec == CacheInit /\ [][CacheNext]_vars

\* ------------------------------------------------------ reading the state
\* The entries on file, for a reader of the state: those load_cache returns,
\* none when it raises.
Entries(file) == IF load_cache_raises(file) THEN <<>> ELSE load_cache(file)

\* Whether a lookup by uid finds u in the cache file, and the entry it finds.
Cached(file, u) == u \in DictKeys(Entries(file))
Lookup(file, u) == DictGet(Entries(file), u)

\* The step is the cache write of the full-batch cycle.
PollWrites == poll.pc = "write" /\ poll'.pc = "sleep"

\* The step is the cache write of task t.
TaskWrites(t) == task[t].pc = "update" /\ task'[t].pc # "update"

\* The full-batch cycle is in its classify+update sequence: it is about to
\* load the cache, or has loaded it and not yet written.
PollInSequence == poll.pc \in {"classify", "push", "write"}

\* Task t is in its classify+update sequence.
TaskInSequence(t) == task[t].pc = "update"

\* ----------------------------------------------------------------- claims

C2_UidUnique ==
    LET entries == Entries(cacheFile)
    IN  \A i, j \in DOMAIN entries :
            entries[i].uid = entries[j].uid => i = j

UidsOf(events) == {events[i].uid : i \in DOMAIN events}

\* The events of a batch that a classification calls new or updated.
Changed(sort, events) ==
    {events[i] : i \in Range(sort.new) \cup Range(sort.updated)}

\* C5 (as claimed): in every cycle each event classified new or updated is
\* chosen for dissemination and sent, and no unchanged event is; so a task
\* whose event is new does not treat it as a duplicate.
C5_ChangedAreDisseminated ==
    /\ poll.pc \in {"push", "write"} =>
           {poll.events[i] : i \in Range(poll.to_push)}
               = Changed(load_sort_events(cacheFile, poll.events), poll.events)
    /\ poll.pc = "write" =>
           {b.uid : b \in poll.notified}
               = UidsOf([k \in DOMAIN poll.to_push |-> poll.events[poll.to_push[k]]])
    /\ \A t \in TaskIds :
           /\ task[t].pc = "update" =>
                  (task[t].duplicate
                       <=> Changed(task[t].sort, <<task[t].event>>) = {})
           /\ task[t].pc = "close" =>
                  {b.uid : b \in task[t].notified} = {task[t].eid}

\* C6 (as claimed): every notification carries an integer revision, the one
\* the cycle stores for the uid: 0 for a new uid, previous + 1 for an updated
\* one.
C6_NotificationCarriesRevision ==
    /\ \A b \in poll.notified :
           /\ b.has_rev_id
           /\ b.rev_id = IF b.uid \in DictKeys(poll.entries)
                         THEN DictGet(poll.entries, b.uid).rev_id + 1
                         ELSE 0
    /\ \A t \in TaskIds : \A b \in task[t].notified :
           /\ b.has_rev_id
           /\ b.rev_id = IF Len(task[t].sort.new) = 1 THEN 0
                         ELSE DictGet(task[t].sort.entries, b.uid).rev_id + 1

\* The step is the classification of the full-batch cycle.
PollClassifies == poll.pc = "classify" /\ poll'.pc \in {"push", "write"}

\* The step is the classification of task t.
TaskClassifies(t) == task[t].pc = "cache_wait" /\ task'[t].pc = "update"

C8_OneAttemptPerReceiver ==
    /\ poll.pc \in {"push", "write"} =>
           \A k \in DOMAIN poll.to_push : \A c \in Clients :
               poll.attempts[poll.events[poll.to_push[k]].uid][c] =
                   IF \/ poll.pc = "write"
                      \/ k < poll.pi
                      \/ (k = poll.pi /\ c < poll.ci)
                   THEN 1 ELSE 0
    /\ \A t \in TaskIds : \A c \in Clients :
           /\ task[t].pc = "push" =>
                  task[t].attempts[task[t].eid][c] = IF c < task[t].ci THEN 1 ELSE 0
           /\ task[t].pc = "close" => task[t].attempts[task[t].eid][c] = 1

\* C8 witness: the full-batch cycle has finished the fan-out of its events in
\* a cycle where a delivery failed.
C8_Witness ==
    /\ poll.pc = "write"
    /\ poll.failed
    /\ poll.to_push # <<>>

\* C9: a failed delivery never ends the cycle: the cycle goes on to write the
\* generation that its loaded entries and its batch determine (each pushed
\* uid with the observed fingerprint and the revision that was sent, every
\* other cached uid as it was) and releases the cache lock.
C9_FailureDoesNotBlockUpdate ==
    [][ /\ poll.failed => poll.pc \in {"push", "write", "sleep"}
        /\ poll.pc = "sleep" => cache_lock # Poller
        /\ PollWrites =>
               /\ cache_lock' = Unlocked
               /\ \A b \in poll.notified :
                      /\ Cached(cacheFile', b.uid)
                      /\ Lookup(cacheFile', b.uid).hash = b.hash
                      /\ Lookup(cacheFile', b.uid).rev_id = b.rev_id
               /\ \A u \in Uids \ {b.uid : b \in poll.notified} :
                      /\ Cached(cacheFile', u) = Cached(cacheFile, u)
                      /\ Cached(cacheFile, u) =>
                             Lookup(cacheFile', u) = Lookup(cacheFile, u)
        /\ \A t \in TaskIds :
               task[t].pc \in {"push", "close"} => cache_lock # TaskOwner(t)
      ]_vars

\* C9 witness: the full-batch cycle had a failed delivery, has written the
\* cache and released the lock.
C9_Witness ==
    /\ poll.pc = "sleep"
    /\ poll.failed
    /\ cacheFile.exists
    /\ cache_lock = Unlocked

Malformed(file) ==
    /\ file.exists
    /\ \E i \in DOMAIN file.raw :
           \/ ~({"uid", "hash", "rev_id"} \subseteq DOMAIN file.raw[i])
           \/ file.raw[i].uid.type # "str"
           \/ file.raw[i].hash.type # "str"
           \/ file.raw[i].rev_id.type # "int"

\* C11 (as claimed): while the cache file is malformed, every load of it
\* fails, so no cycle gets past its load: none has classified, none has a
\* notification sent, none is about to write.
C11_MalformedCacheStopsCycle ==
    Malformed(cacheFile) =>
        /\ poll.pc \notin {"push", "write"}
        /\ poll.notified = {}
        /\ \A t \in TaskIds : task[t].pc \notin {"update", "push", "close"}

\* The full-batch cycle is observing the site (fetch_events), task t is
\* (the play_lock block of _update_clients).
PollObserving == poll.pc \in {"fetch_ids", "fetch_event"}
TaskObserving(t) == task[t].pc = "observing"

\* C12 (as claimed): a cycle that an exception has ended does not hold the
\* cache lock.
C12_FailedCycleReleasesLock ==
    /\ poll.pc = "crashed" => cache_lock # Poller
    /\ \A t \in TaskIds : task[t].pc = "failed" => cache_lock # TaskOwner(t)

\* C13 (as claimed): no cycle is observing the site while it holds the cache
\* lock.
C13_ObservationBeforeCacheLock ==
    /\ PollObserving => cache_lock # Poller
    /\ \A t \in TaskIds : TaskObserving(t) => cache_lock # TaskOwner(t)

\* C14 (as claimed): at most one cycle is observing the site at any time.
C14_OneObservationAtATime ==
    Cardinality({t \in TaskIds : TaskObserving(t)})
        + (IF PollObserving THEN 1 ELSE 0) <= 1

\* C16 (as claimed): every RSVP request the intake has handled has created
\* its single-event reconciliation (the t-th request creates task t, once).
C16_EveryRsvpTriggersTask ==
    \A t \in TaskIds : t <= nRsvps => task[t].pc # "unborn"

\* C17: the handler answers without waiting for the task it created: while
\* it has the Response left to return, returning it is possible whatever
\* state the task is in; the status it returns is 200 when the forwarded
\* write was ok and 500 when it was not; and no step of a task, nor any
\* other step, changes a Response once returned.
C17_AnswerIndependentOfTask ==
    [][ \A t \in TaskIds :
            /\ rsvp[t].pc = "closing" => ENABLED post_event_rsvp_respond(t)
            /\ (rsvp[t].pc = "closing" /\ rsvp'[t] # rsvp[t]) =>
                   /\ rsvp'[t].pc = "answered"
                   /\ rsvp'[t].ok = rsvp[t].ok
                   /\ rsvp'[t].status = IF rsvp[t].ok THEN 200 ELSE 500
                   /\ task'[t] = task[t]
            /\ rsvp[t].pc \in {"answered", "raised"} => rsvp'[t] = rsvp[t]
            /\ rsvp[t].pc = "unborn" =>
                   rsvp'[t].pc \in {"unborn", "closing", "raised"}
      ]_vars

\* C17 witness: a request was answered 500 while the reconciliation it
\* triggered waits for the cache lock, which the crashed full-batch cycle
\* holds: the task will never complete.
C17_Witness ==
    \E t \in TaskIds :
        /\ rsvp[t].pc = "answered"
        /\ rsvp[t].status = 500
        /\ task[t].pc = "cache_wait"
        /\ poll.pc = "crashed"
        /\ cache_lock = Poller

\* The entry of uid u in a sequence of entries: the last one of that uid.
\* (A file that holds the uid once has one such entry; where update_cache has
\* left an older entry beside the new, the new one is the later.)
HasEntry(entries, u) == \E k \in DOMAIN entries : entries[k].uid = u
EntryOf(entries, u) ==
    CHOOSE e \in Range(entries) :
        \E k \in DOMAIN entries :
            /\ entries[k] = e /\ e.uid = u
            /\ \A j \in DOMAIN entries : j > k => entries[j].uid # u

\* C18: the three index lists of a classification are pairwise disjoint and
\* hold together every index of the batch, each once.
C18_SortIsPartition ==
    call.fn \in {"load_sort_events", "update_cache"} =>
        LET sort == call.sort
            n == Len(call.events)
        IN  /\ Range(sort.new) \cap Range(sort.updated) = {}
            /\ Range(sort.new) \cap Range(sort.unchanged) = {}
            /\ Range(sort.updated) \cap Range(sort.unchanged) = {}
            /\ Range(sort.new) \cup Range(sort.updated)
                   \cup Range(sort.unchanged) = 1..n
            /\ Len(sort.new) + Len(sort.updated) + Len(sort.unchanged) = n

\* C18 witness: load_sort_events returned a classification with an index
\* in each of the three lists.
C18_Witness ==
    /\ call.fn = "load_sort_events"
    /\ call.sort.new # <<>>
    /\ call.sort.updated # <<>>
    /\ call.sort.unchanged # <<>>

\* C19: index i is in new iff the uid of event i has no entry in the loaded
\* cache, in updated iff it has one and its fingerprint differs from the
\* event's, in unchanged iff it has one with the event's fingerprint; the
\* full-batch cycle, which classifies on its own, pushes exactly the events
\* that are new or updated in this sense.
C19_SortSemantics ==
    LET entries == load_cache(call.file)
        IsNew(i) == ~HasEntry(entries, call.events[i].uid)
        IsUpdated(i) ==
            /\ HasEntry(entries, call.events[i].uid)
            /\ EntryOf(entries, call.events[i].uid).hash
                   # hash_event(call.events[i])
        IsUnchanged(i) ==
            /\ HasEntry(entries, call.events[i].uid)
            /\ EntryOf(entries, call.events[i].uid).hash
                   = hash_event(call.events[i])
    IN  /\ call.fn \in {"load_sort_events", "update_cache"} =>
               \A i \in DOMAIN call.events :
                   /\ i \in Range(call.sort.new) <=> IsNew(i)
                   /\ i \in Range(call.sort.updated) <=> IsUpdated(i)
                   /\ i \in Range(call.sort.unchanged) <=> IsUnchanged(i)
        /\ call.fn = "fetch_push_events" =>
               \A i \in DOMAIN call.events :
                   i \in Range(call.to_push) <=> (IsNew(i) \/ IsUpdated(i))

\* C19 witness: load_sort_events classified, against a cache that holds the
\* uid at revision 1, one event of the uid as updated and another of the same
\* uid as unchanged.
C19_Witness ==
    /\ call.fn = "load_sort_events"
    /\ \E i \in Range(call.sort.updated), j \in Range(call.sort.unchanged) :
           /\ call.events[i].uid = call.events[j].uid
           /\ EntryOf(load_cache(call.file), call.events[i].uid).rev_id = 1

\* C20: the file a cache update writes holds every uid the loaded file held,
\* and holds the entries of a uid that has no new or updated event in the
\* batch exactly as they were, fingerprint and revision.
C20_UpdateKeepsUntouched ==
    call.fn \in {"update_cache", "fetch_push_events"} =>
        LET old == load_cache(call.file)
            new == load_cache(call.out)
            Untouched(u) ==
                \A i \in DOMAIN call.events :
                    call.events[i].uid = u =>
                        EntryOf(old, u).hash = hash_event(call.events[i])
        IN  \A u \in Uids : HasEntry(old, u) =>
                /\ HasEntry(new, u)
                /\ Untouched(u) =>
                       /\ SelectSeq(new, LAMBDA e : e.uid = u)
                              = SelectSeq(old, LAMBDA e : e.uid = u)
                       /\ EntryOf(new, u) = EntryOf(old, u)

\* C20 witness: update_cache has written a file after a batch with an
\* updated and an unchanged event, a cached uid having no updated event.
C20_Witness ==
    /\ call.fn = "update_cache"
    /\ call.sort.updated # <<>>
    /\ call.sort.unchanged # <<>>
    /\ \E u \in Uids :
           /\ HasEntry(load_cache(call.file), u)
           /\ u \notin {call.events[i].uid : i \in Range(call.sort.updated)}

\* No cycle is running: run() is before a cycle or asleep after one, every
\* task that was created has ended, and both locks are free.
AllIdle ==
    /\ poll.pc \in {"idle", "sleep"}
    /\ \A t \in TaskIds : task[t].pc \in {"unborn", "done", "failed"}
    /\ cache_lock = Unlocked
    /\ play_lock = Unlocked

\* No cycle waits for one of the locks while it holds the other.
NoHoldAndWait ==
    /\ play_lock # Poller
    /\ \A t \in TaskIds :
           /\ task[t].pc = "play_wait" => cache_lock # TaskOwner(t)
           /\ task[t].pc = "cache_wait" => play_lock # TaskOwner(t)

\* C15 (as claimed): no cycle waits for a lock while holding the other, and
\* in a run where no external call of the full-batch cycle raises, the
\* cycles that were started all come to rest with both locks free.
C15_NoDeadlockAllIdle ==
    /\ []NoHoldAndWait
    /\ ([](~poll.raised)) => <>[]AllIdle

\* The events of a batch have pairwise different uids.
DistinctUids(events) ==
    \A i, j \in DOMAIN events : events[i].uid = events[j].uid => i = j

\* The entries a cycle over a batch writes when nothing was cached: one for
\* each event, with its fingerprint and revision 0.
FirstEntries(events) ==
    {CacheEntry(events[i].uid, hash_event(events[i]), 0) : i \in DOMAIN events}

\* C21: with no cache file load_cache returns [], and a cycle over a batch
\* of distinct uids classifies every event new and writes exactly one entry
\* for each event, with its fingerprint and revision 0.
C21_FirstCycleFromNoFile ==
    (call.file = NoFile /\ DistinctUids(call.events)) =>
        /\ ~load_cache_raises(call.file) /\ load_cache(call.file) = <<>>
        /\ call.fn \in {"load_sort_events", "update_cache"} =>
               /\ call.sort.new = Indices(call.events)
               /\ call.sort.updated = <<>> /\ call.sort.unchanged = <<>>
        /\ call.fn = "fetch_push_events" =>
               call.to_push = Indices(call.events)
        /\ call.fn \in {"update_cache", "fetch_push_events"} =>
               /\ Range(load_cache(call.out)) = FirstEntries(call.events)
               /\ Len(load_cache(call.out)) = Len(call.events)

\* C21 witness: with no cache file, the full cycle's write has stored a
\* batch of two events.
C21_Witness ==
    /\ call.fn = "fetch_push_events"
    /\ call.file = NoFile
    /\ Len(call.events) = 2
    /\ call.out.exists

\* C22: the cycle that follows a completed cycle over the same batch of
\* distinct uids classifies every event unchanged, chooses nothing to push
\* (the task finds a duplicate, the full cycle an empty to_push) and writes
\* the entries it loaded.
C22_SecondCycleIdempotent ==
    /\ (call.fn = "update_cache_again" /\ DistinctUids(call.events)) =>
           /\ call.sort.new = <<>> /\ call.sort.updated = <<>>
           /\ call.sort.unchanged = Indices(call.events)
           /\ duplicate_of(call.sort)
           /\ Range(load_cache(call.out)) = Range(load_cache(call.file))
    /\ call.fn = "fetch_push_events_again" =>
           /\ call.to_push = <<>>
           /\ Range(load_cache(call.out)) = Range(load_cache(call.file))

\* C22 witness: update_cache has run a second time over a batch whose first
\* run replaced an entry of a file of two entries.
C22_Witness ==
    /\ call.fn = "update_cache_again"
    /\ DistinctUids(call.events)
    /\ Len(call.events) = 2
    /\ \E i \in DOMAIN call.file.raw : call.file.raw[i].rev_id.val = MaxRevId + 1

\* C23: load_cache after write_cache returns the entries that were written,
\* and the file holds an item for each of them and nothing else, whatever
\* it held before.
C23_WriteLoadRoundTrip ==
    call.fn = "write_cache" =>
        /\ ~load_cache_raises(call.out)
        /\ load_cache(call.out) = call.entries
        /\ Range(load_cache(call.out)) = Range(call.entries)
        /\ Len(call.out.raw) = Len(call.entries)

\* C23 witness: write_cache has written entries over a file that held
\* other entries.
C23_Witness ==
    /\ call.fn = "write_cache"
    /\ call.entries # <<>>
    /\ call.file.exists /\ call.file.raw # <<>>
    /\ Range(load_cache(call.file)) \cap Range(call.entries) = {}

\* C24 (as claimed): after update_cache over a batch that holds two events
\* of one uid with different content, a lookup of the uid finds the
\* fingerprint of the later of the two, at revision 0 when the uid was not
\* cached and at the cached revision plus 1 when it was.
C24_LaterDuplicateWins ==
    call.fn = "update_cache" =>
        \A i, j \in DOMAIN call.events :
            (/\ i < j
             /\ call.events[i].uid = call.events[j].uid
             /\ call.events[i].content # call.events[j].content
             /\ \A k \in DOMAIN call.events :
                    k > j => call.events[k].uid # call.events[j].uid)
            => LET u == call.events[j].uid
                   old == load_cache(call.file)
                   new == load_cache(call.out)
               IN  /\ HasEntry(new, u)
                   /\ EntryOf(new, u).hash = hash_event(call.events[j])
                   /\ EntryOf(new, u).rev_id =
                          IF HasEntry(old, u) THEN EntryOf(old, u).rev_id + 1
                          ELSE 0

\* C25 (as claimed): in every cycle the notifications are sent after the
\* classification and before the cache write, all under the cache lock: a
\* cycle that is sending holds the cache lock and has not written yet.
C25_DisseminationUnderLock ==
    /\ poll.pc = "push" => cache_lock = Poller
    /\ \A t \in TaskIds : task[t].pc = "push" => cache_lock = TaskOwner(t)

\* C28: in the single-event cycle the classification that decides the push
\* and the one update_cache computes for itself are classifications of the
\* same generation (at the task's update_cache the file still classifies the
\* event as the task did), and the task goes on to push exactly when
\* update_cache stored the event at the cached revision plus 1.
C28_PushIffRevisionIncremented ==
    [][\A t \in TaskIds :
          update_clients_update(t) =>
              LET u == task[t].event.uid IN
              /\ task[t].sort = load_sort_events(cacheFile, <<task[t].event>>)
              /\ task'[t].pc = "push"
                 <=> /\ Cached(cacheFile, u)
                     /\ Lookup(cacheFile', u) =
                            CacheEntry(u, hash_event(task[t].event),
                                       Lookup(cacheFile, u).rev_id + 1)]_vars

\* C28's case: a task whose update_cache stored its event at a revision
\* above 0 is pushing, and another whose event was unchanged or new ended
\* without a push.
C28_Witness ==
    \E t, s \in TaskIds :
        /\ task[t].pc = "push"
        /\ Cached(cacheFile, task[t].event.uid)
        /\ Lookup(cacheFile, task[t].event.uid).rev_id > 0
        /\ task[s] = TaskDone

\* C26 (as claimed, for a task and the full-batch cycle): a cycle that
\* observed a uid earlier never writes its observation over the entry
\* written from a later observation. A task that observed its uid before
\* the full-batch cycle did, and writes after the full-batch cycle wrote
\* what it observed, leaves the fingerprint of the uid as it is.
C26_NoWriteOverLaterObservation ==
    [][\A t \in TaskIds :
          (update_clients_update(t) /\ history.mark[t] = "stale")
          => Lookup(cacheFile', task[t].event.uid).hash =
                 Lookup(cacheFile, task[t].event.uid).hash]_vars

\* C27 (as claimed): once every cycle has finished, the last notification
\* of a uid that a receiver got, if it missed none, has the fingerprint of
\* the cache entry now stored for the uid.
C27_LastNotificationIsCurrent ==
    AllIdle =>
        \A c \in Clients, u \in Uids :
            history.got[c][u] \notin {NoHash, Missed}
            => /\ Cached(cacheFile, u)
               /\ Lookup(cacheFile, u).hash = history.got[c][u]

====
